---- MODULE Spec2Model ----
(***************************************************************************)
(* The image generation route (POST handler) of the Gemini image editing   *)
(* quickstart: request validation, history encoding, the current-turn      *)
(* message, the call to the external model and the decoding of its reply.  *)
(*                                                                         *)
(* A JavaScript string is a sequence of one-character strings, so that     *)
(* startsWith, split, includes, the base64 test and the data-URL template  *)
(* are computed character by character.  A value that may be missing is a  *)
(* tagged record (Undefined, Null, Str, Num); an object is a record whose  *)
(* domain is the set of its keys.                                          *)
(***************************************************************************)
EXTENDS Integers, Sequences, FiniteSets, TLC

VARIABLES GEMINI_API_KEY, pc, request, sendLog, result, error, responses

\* The ImageUpload component: its two state hooks, the currentImage prop, the
\* FileReaders it has started, and the calls it has made to its callbacks.
VARIABLES selectedFile, isLoading, currentImage, readers, imageSelected, errorsReported,
          drops

routeVars == <<GEMINI_API_KEY, pc, request, sendLog, result, error, responses>>

uploadVars ==
  <<selectedFile, isLoading, currentImage, readers, imageSelected, errorsReported, drops>>

vars == <<routeVars, uploadVars>>

\* Longest parts sequence of a model reply that is explored.
MaxReplyParts == 2

\* Number of POST requests that may be in flight together.
NumRequests == 2

\* Number of files dropped on the upload zone that is explored.
MaxDrops == 3

Requests == 1..NumRequests

(***************************************************************************)
(* JavaScript values                                                       *)
(***************************************************************************)
Undefined == [type |-> "undefined"]

Null == [type |-> "null"]

Str(s) == [type |-> "string", val |-> s]

Num(digits) == [type |-> "number", val |-> digits]

EmptyObject == [k \in {} |-> Null]

\* An Error object; only its message is read.
Error(message) == [type |-> "Error", message |-> message]

\* Reading a property of undefined.
TypeError(property) ==
  Error(IF property = "map"
        THEN "Cannot read properties of undefined (reading 'map')"
        ELSE "Cannot read properties of undefined (reading 'parts')")

\* JavaScript truthiness: undefined, null, "" and 0 are falsy.
Truthy(v) ==
  \/ v.type = "string" /\ v.val # <<>>
  \/ v.type = "number" /\ v.val # <<"0">>
  \/ v.type \in {"object", "array"}

HasKeys(o) == DOMAIN o # {}

(***************************************************************************)
(* String literals of the route                                            *)
(***************************************************************************)
DataScheme == <<"d", "a", "t", "a", ":">>

ImagePng == <<"i", "m", "a", "g", "e", "/", "p", "n", "g">>

ImageJpeg == <<"i", "m", "a", "g", "e", "/", "j", "p", "e", "g">>

Base64Marker == <<";", "b", "a", "s", "e", "6", "4", ",">>

Whitespace == {" ", "\t"}

Base64Alphabet ==
  { "A", "B", "C", "D", "E", "F", "G", "H", "I", "J", "K", "L", "M",
    "N", "O", "P", "Q", "R", "S", "T", "U", "V", "W", "X", "Y", "Z",
    "a", "b", "c", "d", "e", "f", "g", "h", "i", "j", "k", "l", "m",
    "n", "o", "p", "q", "r", "s", "t", "u", "v", "w", "x", "y", "z",
    "0", "1", "2", "3", "4", "5", "6", "7", "8", "9", "+", "/", "=" }

(***************************************************************************)
(* String operations                                                       *)
(***************************************************************************)
StartsWith(s, p) == Len(s) >= Len(p) /\ SubSeq(s, 1, Len(p)) = p

Includes(s, p) ==
  \E i \in 1..(Len(s) - Len(p) + 1) : SubSeq(s, i, i + Len(p) - 1) = p

RECURSIVE Split(_, _)
Split(s, sep) ==
  IF \A i \in 1..Len(s) : s[i] # sep
  THEN <<s>>
  ELSE LET i == CHOOSE k \in 1..Len(s) :
                  s[k] = sep /\ \A j \in 1..(k - 1) : s[j] # sep
       IN <<SubSeq(s, 1, i - 1)>> \o Split(SubSeq(s, i + 1, Len(s)), sep)

\* base64Image.replace(/\s/g, "")
StripWhitespace(s) == SelectSeq(s, LAMBDA c : c \notin Whitespace)

\* /^([A-Za-z0-9+/=]+)$/.test(s)
MatchesBase64(s) == Len(s) > 0 /\ \A i \in 1..Len(s) : s[i] \in Base64Alphabet

\* part.image.includes("image/png") ? "image/png" : "image/jpeg"
InferMimeType(url) == IF Includes(url, ImagePng) THEN ImagePng ELSE ImageJpeg

(***************************************************************************)
(* Responses                                                               *)
(***************************************************************************)
\* NextResponse.json(body, { status })
Json(status, body) == [status |-> status, body |-> body]

Failure(status, message) == Json(status, [success |-> FALSE, error |-> message])

NoResponse == [status |-> 0]

(***************************************************************************)
(* Validation: credential, body, prompt, image, in this order              *)
(***************************************************************************)
\* await req.json().catch(() => null)
RequestData(raw) == IF raw.type = "garbage" THEN Null ELSE raw

\* Mutant: the image check without its base64 test.
ValidateImageNoBase64(inputImage) ==
  IF ~Truthy(inputImage)
  THEN NoResponse
  ELSE IF inputImage.type # "string" \/ ~StartsWith(inputImage.val, DataScheme)
  THEN Failure(400, "Invalid image data URL format")
  ELSE IF Len(Split(inputImage.val, ",")) < 2
  THEN Failure(400, "Malformed image data URL")
  ELSE NoResponse

\* if (inputImage) { ... }: a falsy image is not validated.
ValidateImage(inputImage) ==
  IF ~Truthy(inputImage)
  THEN NoResponse
  ELSE IF inputImage.type # "string" \/ ~StartsWith(inputImage.val, DataScheme)
  THEN Failure(400, "Invalid image data URL format")
  ELSE LET imageParts == Split(inputImage.val, ",")
       IN IF Len(imageParts) < 2
          THEN Failure(400, "Malformed image data URL")
          ELSE LET base64Image == imageParts[2]
               IN IF base64Image = <<>> \/ ~MatchesBase64(StripWhitespace(base64Image))
                  THEN Failure(400, "Image data is empty or not valid base64")
                  ELSE NoResponse

\* if (!GEMINI_API_KEY)
CheckCredential(key) ==
  IF key = "" THEN Failure(500, "GEMINI_API_KEY is not configured") ELSE NoResponse

\* Mutant: the checks with the image looked at before the prompt.
ValidateImageFirst(raw) ==
  IF ~Truthy(RequestData(raw))
  THEN Failure(400, "Invalid JSON in request body")
  ELSE IF ValidateImage(RequestData(raw).image) # NoResponse
  THEN ValidateImage(RequestData(raw).image)
  ELSE IF ~Truthy(RequestData(raw).prompt)
  THEN Failure(400, "Prompt is required")
  ELSE NoResponse

\* The checks that follow the parsing of the body: body, prompt, image.
Validate(raw) ==
  IF ~Truthy(RequestData(raw))
  THEN Failure(400, "Invalid JSON in request body")
  ELSE IF ~Truthy(RequestData(raw).prompt)
  THEN Failure(400, "Prompt is required")
  ELSE ValidateImage(RequestData(raw).image)

(***************************************************************************)
(* History encoding                                                        *)
(***************************************************************************)
FormatPart(part, role) ==
  IF "text" \in DOMAIN part /\ part.text # <<>>
  THEN [text |-> part.text]
  ELSE IF /\ "image" \in DOMAIN part
          /\ part.image # <<>>
          /\ role = "user"
          /\ Len(Split(part.image, ",")) > 1
  THEN [inlineData |-> [data |-> Split(part.image, ",")[2],
                        mimeType |-> InferMimeType(part.image)]]
  ELSE [text |-> <<>>]

FormatItem(item) ==
  [role |-> item.role,
   parts |-> SelectSeq([i \in 1..Len(item.parts) |-> FormatPart(item.parts[i], item.role)],
                       HasKeys)]

FormatHistory(history) ==
  IF Truthy(history) /\ Len(history.val) > 0
  THEN SelectSeq([i \in 1..Len(history.val) |-> FormatItem(history.val[i])],
                 LAMBDA item : Len(item.parts) > 0)
  ELSE <<>>

\* item.parts.map(...) on a turn that has no parts array raises a TypeError.
HistoryThrows(history) ==
  /\ Truthy(history)
  /\ \E i \in 1..Len(history.val) : "parts" \notin DOMAIN history.val[i]

(***************************************************************************)
(* Current-turn message                                                    *)
(***************************************************************************)
\* Mutant: messageParts kept at module level: it still holds what the last request sent.
SharedMessageParts(log) == IF log = <<>> THEN <<>> ELSE log[Len(log)].parts

\* const messageParts = []: a fresh array in every invocation.
NewMessageParts(log) == <<>>

\* The prompt, then the edit image if any.  The format tests repeated here
\* cannot fail: validation has already rejected what they reject.
MessageParts(log, prompt, inputImage) ==
  NewMessageParts(log)
    \o <<[text |-> prompt.val]>>
    \o (IF Truthy(inputImage)
        THEN <<[inlineData |-> [data |-> Split(inputImage.val, ",")[2],
                                mimeType |-> InferMimeType(inputImage.val)]]>>
        ELSE <<>>)

(***************************************************************************)
(* Error mapping                                                           *)
(***************************************************************************)
\* Mutant: the inner catch reporting a fixed text instead of the failure's message.
CatchSendMessageGeneric(message) ==
  [status |-> 500,
   body |-> [success |-> FALSE, error |-> "Gemini API error",
             details |-> "Unknown error in AI processing"]]

\* The catch around startChat/sendMessage.
CatchSendMessage(message) ==
  Json(500, [success |-> FALSE, error |-> "Gemini API error", details |-> message])

\* The catch around the whole handler.
CatchHandler(message) ==
  Json(500, [success |-> FALSE, error |-> "Failed to generate image", details |-> message])

(***************************************************************************)
(* Decoding of the model's reply                                           *)
(***************************************************************************)
\* Mutant: the loop body keeping the first inline-data part instead of the last.
ScanStepFirstImageWins(acc, part) ==
  IF "inlineData" \in DOMAIN part
  THEN IF acc.imageData.type = "null"
       THEN [acc EXCEPT !.imageData = Str(part.inlineData.data),
                        !.mimeType = IF part.inlineData.mimeType # <<>>
                                     THEN part.inlineData.mimeType
                                     ELSE ImagePng]
       ELSE acc
  ELSE IF "text" \in DOMAIN part /\ part.text # <<>>
  THEN [acc EXCEPT !.textResponse = Str(part.text)]
  ELSE acc

\* The body of the loop over the first candidate's parts.
ScanStep(acc, part) ==
  IF "inlineData" \in DOMAIN part
  THEN [acc EXCEPT !.imageData = Str(part.inlineData.data),
                   !.mimeType = IF part.inlineData.mimeType # <<>>
                                THEN part.inlineData.mimeType
                                ELSE ImagePng]
  ELSE IF "text" \in DOMAIN part /\ part.text # <<>>
  THEN [acc EXCEPT !.textResponse = Str(part.text)]
  ELSE acc

RECURSIVE ScanParts(_, _)
ScanParts(parts, acc) ==
  IF parts = <<>>
  THEN acc
  ELSE ScanParts(Tail(parts), ScanStep(acc, Head(parts)))

\* Mutant: the test comparing with null only, so that an empty payload passes.
HasImageDataNotNull(imageData) == imageData.type # "null"

\* if (!imageData)
HasImageData(imageData) == Truthy(imageData)

\* `data:${mimeType};base64,${imageData}`
DataUrl(mimeType, data) == DataScheme \o mimeType \o Base64Marker \o data

Decode(res) ==
  IF Len(res.candidates) > 0
  THEN IF "content" \notin DOMAIN res.candidates[1]
       THEN CatchHandler(TypeError("parts").message)
       ELSE LET acc == ScanParts(res.candidates[1].content.parts,
                                 [textResponse |-> Null, imageData |-> Null,
                                  mimeType |-> ImagePng])
            IN IF ~HasImageData(acc.imageData)
               THEN Failure(500, "No image data in Gemini response")
               ELSE Json(200, [success |-> TRUE,
                               image |-> DataUrl(acc.mimeType, acc.imageData.val),
                               description |-> IF Truthy(acc.textResponse)
                                               THEN acc.textResponse
                                               ELSE Null])
  ELSE Failure(500, "No response from Gemini API")

(***************************************************************************)
(* Inputs                                                                  *)
(***************************************************************************)
ApiKeys == {"", "AIza-key"}

Hi == <<"h", "i">>

Prompts ==
  { Undefined, Str(<<>>), Str(<<" ">>), Str(Hi), Str(<<" ">> \o Hi \o <<" ">>) }

PayloadA == <<"Q", "U", "I", "=">>

PayloadB == <<"Q", "k", "I", "=">>

PngUrl == DataUrl(ImagePng, PayloadA)

JpegUrl == DataUrl(ImageJpeg, PayloadB)

Images ==
  { Undefined,
    Str(<<>>),
    Num(<<"7">>),
    Str(<<"n", "o", "t", "-", "a", "-", "d", "a", "t", "a", "-", "u", "r", "l">>),
    Str(DataScheme \o ImagePng),
    Str(DataUrl(ImagePng, <<>>)),
    Str(DataUrl(ImagePng, <<" ">>)),
    Str(DataUrl(ImagePng, <<"Q", "!", "=", "=">>)),
    Str(DataUrl(ImagePng, <<"Q", "U", " ", "I", "=">>)),
    Str(DataUrl(ImagePng, PayloadA \o <<",">> \o PayloadB)),
    Str(DataUrl(<<"i", "m", "a", "g", "e", "/", "g", "i", "f">>, PayloadA)),
    Str(PngUrl),
    Str(JpegUrl) }

Turn(role, parts) == [role |-> role, parts |-> parts]

History(turns) == [type |-> "array", val |-> turns]

Histories ==
  { Undefined,
    History(<<>>),
    History(<<Turn("user", <<[text |-> Hi]>>)>>),
    History(<<Turn("user", <<[text |-> Hi], [image |-> PngUrl]>>)>>),
    History(<<Turn("user", <<[image |-> JpegUrl]>>)>>),
    History(<<Turn("user", <<[image |-> DataScheme \o ImagePng]>>)>>),
    History(<<Turn("user", <<EmptyObject>>)>>),
    History(<<Turn("user", <<>>)>>),
    History(<<Turn("model", <<[image |-> PngUrl]>>)>>),
    History(<<Turn("model", <<[text |-> Hi], [image |-> PngUrl]>>)>>),
    History(<<Turn("user", <<[text |-> Hi]>>), Turn("model", <<[image |-> PngUrl]>>)>>),
    History(<<Turn("user", <<[text |-> Hi]>>),
              Turn("model", <<[text |-> Hi, image |-> PngUrl]>>),
              Turn("user", <<[text |-> Hi], [image |-> PngUrl]>>)>>),
    History(<<[role |-> "user"]>>) }

Body(prompt, image, history) ==
  [type |-> "object", prompt |-> prompt, image |-> image, history |-> history]

GarbageBody == [type |-> "garbage"]

RequestBodies ==
  {GarbageBody, Null}
    \cup {Body(p, i, Undefined) : p \in Prompts, i \in Images}
    \cup {Body(Str(Hi), i, h) : i \in {Undefined, Str(PngUrl)}, h \in Histories}

InlinePart(mimeType, data) == [inlineData |-> [data |-> data, mimeType |-> mimeType]]

TextPart(text) == [text |-> text]

ReplyParts ==
  { InlinePart(ImageJpeg, PayloadA),
    InlinePart(<<>>, PayloadB),
    InlinePart(ImageJpeg, <<>>),
    TextPart(<<"o", "k">>),
    TextPart(<<"n", "o">>),
    TextPart(<<>>) }

ReplyPartSeqs(n) == UNION {[1..k -> ReplyParts] : k \in 0..n}

Candidate(parts) == [content |-> [parts |-> parts]]

BlockedCandidate == [finishReason |-> "SAFETY"]

GenerateContentResults ==
  {[candidates |-> <<>>], [candidates |-> <<BlockedCandidate>>]}
    \cup {[candidates |-> <<Candidate(ps)>>] : ps \in ReplyPartSeqs(MaxReplyParts)}
    \cup {[candidates |-> <<Candidate(ps), Candidate(<<InlinePart(ImagePng, PayloadB)>>)>>] :
            ps \in ReplyPartSeqs(1)}

ErrorMessages == {"fetch failed", "[429 Too Many Requests] quota exceeded"}

(***************************************************************************)
(* State machine                                                           *)
(***************************************************************************)
\* The component as mounted: useState(null), useState(false), no image yet.
UploadInit ==
  /\ selectedFile = Null
  /\ isLoading = FALSE
  /\ currentImage = Null
  /\ readers = <<>>
  /\ imageSelected = <<>>
  /\ errorsReported = <<>>
  /\ drops = 0

Init ==
  /\ UploadInit
  /\ GEMINI_API_KEY \in ApiKeys
  /\ pc = [r \in Requests |-> "idle"]
  /\ request = [r \in Requests |-> Null]
  /\ sendLog = <<>>
  /\ result = [r \in Requests |-> Null]
  /\ error = [r \in Requests |-> Null]
  /\ responses = [r \in Requests |-> <<>>]

Respond(r, response) ==
  /\ responses' = [responses EXCEPT ![r] = Append(@, response)]
  /\ pc' = [pc EXCEPT ![r] = "done"]

\* POST from its entry to await req.json(): the credential check.
POST(r, raw) ==
  /\ pc[r] = "idle"
  /\ request' = [request EXCEPT ![r] = raw]
  /\ UNCHANGED <<GEMINI_API_KEY, sendLog, result, error>>
  /\ UNCHANGED uploadVars
  /\ IF CheckCredential(GEMINI_API_KEY) # NoResponse
     THEN Respond(r, CheckCredential(GEMINI_API_KEY))
     ELSE /\ pc' = [pc EXCEPT ![r] = "parsing"]
          /\ UNCHANGED responses

\* req.json() settles: the handler runs to a return or to the await of
\* chat.sendMessage.
JsonSettles(r) ==
  /\ pc[r] = "parsing"
  /\ UNCHANGED <<GEMINI_API_KEY, request, result>>
  /\ UNCHANGED uploadVars
  /\ LET raw == request[r]
     IN IF Validate(raw) # NoResponse
        THEN /\ Respond(r, Validate(raw))
             /\ UNCHANGED <<sendLog, error>>
        ELSE IF HistoryThrows(raw.history)
        THEN /\ error' = [error EXCEPT ![r] = TypeError("map")]
             /\ Respond(r, CatchSendMessage(TypeError("map").message))
             /\ UNCHANGED sendLog
        ELSE /\ sendLog' = Append(sendLog,
                                  [req |-> r,
                                   history |-> FormatHistory(raw.history),
                                   parts |-> MessageParts(sendLog, raw.prompt, raw.image)])
             /\ pc' = [pc EXCEPT ![r] = "awaiting"]
             /\ UNCHANGED <<error, responses>>

\* chat.sendMessage resolves: the rest of the handler runs to its return.
SendMessageResolves(r, res) ==
  /\ pc[r] = "awaiting"
  /\ result' = [result EXCEPT ![r] = [type |-> "object", response |-> res]]
  /\ Respond(r, Decode(res))
  /\ UNCHANGED <<GEMINI_API_KEY, request, sendLog, error>>
  /\ UNCHANGED uploadVars

\* chat.sendMessage rejects with an Error: the inner catch answers.
SendMessageRejects(r, message) ==
  /\ pc[r] = "awaiting"
  /\ error' = [error EXCEPT ![r] = Error(message)]
  /\ Respond(r, CatchSendMessage(Error(message).message))
  /\ UNCHANGED <<GEMINI_API_KEY, request, sendLog, result>>
  /\ UNCHANGED uploadVars

\* One invocation of the handler, over the whole input set.
Next ==
  \/ \E raw \in RequestBodies : POST(1, raw)
  \/ JsonSettles(1)
  \/ \E res \in GenerateContentResults : SendMessageResolves(1, res)
  \/ \E message \in ErrorMessages : SendMessageRejects(1, message)

Spec == Init /\ [][Next]_vars

(***************************************************************************)
(* Concurrent invocations over a reduced input set                         *)
(***************************************************************************)
ConcBodies ==
  { Body(Str(<<>>), Undefined, Undefined),
    Body(Str(Hi), Undefined, Undefined),
    Body(Str(Hi), Str(PngUrl), History(<<Turn("user", <<[text |-> Hi]>>)>>)) }

ConcResults ==
  { [candidates |-> <<Candidate(<<InlinePart(ImageJpeg, PayloadA), TextPart(<<"o", "k">>)>>)>>],
    [candidates |-> <<Candidate(<<TextPart(<<"o", "k">>)>>)>>] }

NextConc ==
  \E r \in Requests :
    \/ \E raw \in ConcBodies : POST(r, raw)
    \/ JsonSettles(r)
    \/ \E res \in ConcResults : SendMessageResolves(r, res)
    \/ SendMessageRejects(r, "fetch failed")

SpecConc == Init /\ [][NextConc]_vars

(***************************************************************************)
(* The ImageUpload component                                               *)
(***************************************************************************)
\* maxSize of the drop zone: 10 * 1024 * 1024.
MaxSize == 10485760

File(name, size, mime, content) ==
  [type |-> "File", name |-> name, size |-> size, mime |-> mime, content |-> content]

ImageGif == <<"i", "m", "a", "g", "e", "/", "g", "i", "f">>

\* The files a user may drop: two that the zone accepts, one of a type it
\* does not accept, one above its size limit.
DroppedFiles ==
  { File("a.png", 2048, ImagePng, PayloadA),
    File("b.jpg", 4096, ImageJpeg, PayloadB),
    File("c.gif", 2048, ImageGif, PayloadA),
    File("d.png", 20971520, ImagePng, PayloadB) }

\* The drop zone's accept and maxSize options: the message of the first
\* rejection error, "" when the file is accepted.
Rejection(file) ==
  IF file.mime \notin {ImagePng, ImageJpeg}
  THEN "File type must be image/png,.png,image/jpeg,.jpg,.jpeg"
  ELSE IF file.size > MaxSize
  THEN "File is larger than 10485760 bytes"
  ELSE ""

\* reader.readAsDataURL(file), when it succeeds.
ReadAsDataURL(file) == DataUrl(file.mime, file.content)

\* The owner of the component keeps what onImageSelect hands it as the image
\* it passes back in currentImage.
OnImageSelect(imageData) == IF imageData = <<>> THEN Null ELSE Str(imageData)

\* useEffect on currentImage: a falsy image clears the selected file.
AfterImageChange(image, file) == IF ~Truthy(image) THEN Null ELSE file

\* onDrop.  The zone is rendered while there is no current image; a read in
\* progress does not disable it.
OnDrop(file) ==
  /\ ~Truthy(currentImage)
  /\ drops < MaxDrops
  /\ drops' = drops + 1
  /\ IF Rejection(file) # ""
     THEN /\ errorsReported' = Append(errorsReported, Rejection(file))
          /\ UNCHANGED <<selectedFile, isLoading, readers>>
     ELSE /\ selectedFile' = file
          /\ isLoading' = TRUE
          /\ readers' = Append(readers, [file |-> file, state |-> "loading"])
          /\ UNCHANGED errorsReported
  /\ UNCHANGED <<currentImage, imageSelected>>
  /\ UNCHANGED routeVars

\* reader.onload of the i-th reader.
ReaderLoads(i) ==
  /\ i \in 1..Len(readers)
  /\ readers[i].state = "loading"
  /\ readers' = [readers EXCEPT ![i].state = "loaded"]
  /\ LET loaded == ReadAsDataURL(readers[i].file)
     IN IF loaded # <<>>
        THEN /\ imageSelected' = Append(imageSelected, loaded)
             /\ currentImage' = OnImageSelect(loaded)
             /\ selectedFile' = AfterImageChange(OnImageSelect(loaded), selectedFile)
        ELSE UNCHANGED <<imageSelected, currentImage, selectedFile>>
  /\ isLoading' = FALSE
  /\ UNCHANGED <<errorsReported, drops>>
  /\ UNCHANGED routeVars

\* reader.onerror of the i-th reader.
ReaderFails(i) ==
  /\ i \in 1..Len(readers)
  /\ readers[i].state = "loading"
  /\ readers' = [readers EXCEPT ![i].state = "failed"]
  /\ errorsReported' = Append(errorsReported, "Error reading file. Please try again.")
  /\ isLoading' = FALSE
  /\ UNCHANGED <<selectedFile, currentImage, imageSelected, drops>>
  /\ UNCHANGED routeVars

\* handleRemove.  Its button is rendered while there is a current image.
HandleRemove ==
  /\ Truthy(currentImage)
  /\ imageSelected' = Append(imageSelected, <<>>)
  /\ currentImage' = OnImageSelect(<<>>)
  /\ selectedFile' = AfterImageChange(OnImageSelect(<<>>), Null)
  /\ UNCHANGED <<isLoading, readers, errorsReported, drops>>
  /\ UNCHANGED routeVars

NextUpload ==
  \/ \E file \in DroppedFiles : OnDrop(file)
  \/ \E i \in 1..MaxDrops : ReaderLoads(i)
  \/ \E i \in 1..MaxDrops : ReaderFails(i)
  \/ HandleRemove

SpecUpload == Init /\ [][NextUpload]_vars

(***************************************************************************)
(* Properties                                                              *)
(***************************************************************************)
\* The messages request r has handed to chat.sendMessage.
Sent(r) == SelectSeq(sendLog, LAMBDA e : e.req = r)

Calls(r) == Len(Sent(r))

Response(r) == responses[r][1]

\* The request got past the credential check and its body parsed to an object.
Admitted(r) == GEMINI_API_KEY # "" /\ request[r].type = "object"

FailureEnvelope(resp, status) ==
  /\ resp.status = status
  /\ resp.body.success = FALSE
  /\ "error" \in DOMAIN resp.body

Missing(v) == v.type \in {"undefined", "null"}

\* C1: a request whose prompt is missing, the empty string or only whitespace is
\* answered {success: false, error} with status 400, and chat.sendMessage is
\* never invoked for it.
C1_BlankPromptRejected ==
  \A r \in Requests :
    (/\ Admitted(r)
     /\ \/ Missing(request[r].prompt)
        \/ /\ request[r].prompt.type = "string"
           /\ StripWhitespace(request[r].prompt.val) = <<>>)
    => /\ Calls(r) = 0
       /\ pc[r] \in {"parsing", "done"}
       /\ pc[r] = "done" => FailureEnvelope(Response(r), 400)

\* The image of a request is there: absent, null and "" all mean "no edit image".
Supplied(image) == ~Missing(image) /\ image.val # <<>>

\* An image that is no data URL with a base64 payload in its second comma segment.
Malformed(image) ==
  \/ image.type # "string"
  \/ ~StartsWith(image.val, DataScheme)
  \/ Len(Split(image.val, ",")) < 2
  \/ LET payload == StripWhitespace(Split(image.val, ",")[2])
     IN payload = <<>> \/ \E i \in 1..Len(payload) : payload[i] \notin Base64Alphabet

NonEmptyPrompt(prompt) == prompt.type = "string" /\ prompt.val # <<>>

ReplyParts1(r) == result[r].response.candidates[1].content.parts

HasReplyParts(r) ==
  /\ result[r].type = "object"
  /\ Len(result[r].response.candidates) > 0
  /\ "content" \in DOMAIN result[r].response.candidates[1]

InlineIndexes(parts) == {i \in 1..Len(parts) : "inlineData" \in DOMAIN parts[i]}

TextIndexes(parts) ==
  {i \in 1..Len(parts) : "text" \in DOMAIN parts[i] /\ parts[i].text # <<>>}

MimeOrPng(inlineData) ==
  IF inlineData.mimeType = <<>> THEN ImagePng ELSE inlineData.mimeType

\* C3: a response with success: true carries an image that is the data URL of a
\* non-empty inline-data payload of the model's first candidate; a reply whose
\* first candidate holds only text parts is answered {success: false} with
\* status 500 and no image.
C3_SuccessCarriesModelImage ==
  \A r \in Requests :
    \A k \in 1..Len(responses[r]) :
      LET resp == responses[r][k]
      IN /\ resp.body.success
            => /\ resp.status = 200
               /\ HasReplyParts(r)
               /\ \E i \in InlineIndexes(ReplyParts1(r)) :
                    LET inlineData == ReplyParts1(r)[i].inlineData
                    IN /\ inlineData.data # <<>>
                       /\ resp.body.image
                            = DataScheme \o MimeOrPng(inlineData) \o Base64Marker
                                \o inlineData.data
         /\ (HasReplyParts(r) /\ InlineIndexes(ReplyParts1(r)) = {})
            => /\ FailureEnvelope(resp, 500)
               /\ "image" \notin DOMAIN resp.body

C3_Witness ==
  \E r \in Requests :
    /\ pc[r] = "done"
    /\ HasReplyParts(r)
    /\ TextIndexes(ReplyParts1(r)) # {}
    /\ InlineIndexes(ReplyParts1(r)) = {}
    /\ Response(r).status = 500

\* A turn with at least one part, each part carrying an image and no text.
ImageOnly(turn) ==
  /\ "parts" \in DOMAIN turn
  /\ Len(turn.parts) > 0
  /\ \A i \in 1..Len(turn.parts) :
       /\ "image" \in DOMAIN turn.parts[i]
       /\ turn.parts[i].image # <<>>
       /\ ~("text" \in DOMAIN turn.parts[i] /\ turn.parts[i].text # <<>>)

\* C4: a history turn of role model whose parts carry an image and no text is
\* encoded to a wire turn with no parts and is absent from the history handed
\* to model.startChat.
C4_ModelImageTurnDropped ==
  \A k \in 1..Len(sendLog) :
    LET history == request[sendLog[k].req].history
    IN Truthy(history)
       => LET dropped == {i \in 1..Len(history.val) :
                            history.val[i].role = "model" /\ ImageOnly(history.val[i])}
          IN /\ \A i \in dropped : FormatItem(history.val[i]).parts = <<>>
             /\ Len(sendLog[k].history) <= Len(history.val) - Cardinality(dropped)

\* C5: every wire turn of the history handed to the model has content: its
\* parts are not empty and are not all text parts with the empty text.
C5_WireTurnsHaveContent ==
  \A k \in 1..Len(sendLog) :
    \A j \in 1..Len(sendLog[k].history) :
      LET parts == sendLog[k].history[j].parts
      IN /\ Len(parts) > 0
         /\ \E i \in 1..Len(parts) :
              ~("text" \in DOMAIN parts[i] /\ parts[i].text = <<>>)

\* C6: the checks run in the order credential, body, prompt, image and stop at
\* the first failure: the response is that of the earliest failing check
\* (missing credential 500, unparseable body 400, missing prompt 400, invalid
\* image 400), no call is made unless all four passed, and status 200 is
\* returned only when all four passed.
C6_ChecksInOrder ==
  \A r \in Requests :
    LET failsCredential == GEMINI_API_KEY = ""
        failsBody == request[r].type # "object"
        failsPrompt == Missing(request[r].prompt) \/ request[r].prompt.val = <<>>
        failsImage == Supplied(request[r].image) /\ Malformed(request[r].image)
        passes == ~failsCredential /\ ~failsBody /\ ~failsPrompt /\ ~failsImage
    IN /\ pc[r] = "parsing" => ~failsCredential
       /\ pc[r] = "awaiting" => passes
       /\ pc[r] = "done"
          => IF failsCredential
             THEN Response(r) = Failure(500, "GEMINI_API_KEY is not configured")
             ELSE IF failsBody
             THEN Response(r) = Failure(400, "Invalid JSON in request body")
             ELSE IF failsPrompt
             THEN Response(r) = Failure(400, "Prompt is required")
             ELSE IF failsImage
             THEN /\ FailureEnvelope(Response(r), 400)
                  /\ Response(r).body.error
                       \in {"Invalid image data URL format", "Malformed image data URL",
                            "Image data is empty or not valid base64"}
             ELSE Response(r).status \in {200, 500}
       /\ (pc[r] = "done" /\ Response(r).status = 200) => passes /\ Calls(r) = 1

C6_Witness ==
  \E r \in Requests :
    /\ Admitted(r)
    /\ Missing(request[r].prompt)
    /\ Supplied(request[r].image)
    /\ Malformed(request[r].image)
    /\ pc[r] = "done"
    /\ Response(r).body.error = "Prompt is required"

Last(S) == CHOOSE i \in S : \A j \in S : j <= i

AfterFirstComma(s) ==
  LET i == CHOOSE k \in 1..Len(s) : s[k] = "," /\ \A j \in 1..(k - 1) : s[j] # ","
  IN SubSeq(s, i + 1, Len(s))

\* C9: the message sent for a validated request starts with one text part that
\* holds the prompt verbatim; with an edit image it has exactly one more part,
\* an inline-data part whose payload is the whole of the data URL after its
\* first comma and whose mime type is image/png when the URL contains
\* "image/png" and image/jpeg otherwise.
C9_MessageCarriesWholePayload ==
  \A k \in 1..Len(sendLog) :
    LET body == request[sendLog[k].req]
        parts == sendLog[k].parts
    IN /\ Len(parts) >= 1
       /\ parts[1] = [text |-> body.prompt.val]
       /\ IF Supplied(body.image)
          THEN /\ Len(parts) = 2
               /\ parts[2]
                    = [inlineData |->
                         [data |-> AfterFirstComma(body.image.val),
                          mimeType |-> IF Includes(body.image.val, ImagePng)
                                       THEN ImagePng
                                       ELSE ImageJpeg]]
          ELSE Len(parts) = 1

\* What of request r other requests could have touched.
Own(r) == <<request[r], result[r], error[r], responses[r], Sent(r)>>

\* C10: under any interleaving, what a request sends and answers is fixed by
\* its own payload and the model's reply to its own call (two requests with the
\* same payload send the same, and with the same reply answer the same); a
\* step of one request leaves every other request's state as it was; and the
\* API key, the one value they share, never changes.
C10_RequestsIndependent ==
  /\ [](\A r1, r2 \in Requests :
          (/\ pc[r1] \in {"awaiting", "done"}
           /\ pc[r2] \in {"awaiting", "done"}
           /\ request[r1] = request[r2])
          => /\ Calls(r1) = Calls(r2)
             /\ \A k \in 1..Calls(r1) :
                  /\ Sent(r1)[k].history = Sent(r2)[k].history
                  /\ Sent(r1)[k].parts = Sent(r2)[k].parts
             /\ (/\ pc[r1] = "done"
                 /\ pc[r2] = "done"
                 /\ result[r1] = result[r2]
                 /\ error[r1] = error[r2])
                => responses[r1] = responses[r2])
  /\ [][/\ GEMINI_API_KEY' = GEMINI_API_KEY
        /\ \A r \in Requests : pc'[r] = pc[r] => Own(r)' = Own(r)]_vars

C10_Witness ==
  \E r1, r2 \in Requests :
    /\ r1 # r2
    /\ request[r1] = request[r2]
    /\ pc[r1] = "awaiting"
    /\ pc[r2] = "done"
    /\ Calls(r2) = 1
    /\ Response(r2).status = 200

ReadPending == \E i \in 1..Len(readers) : readers[i].state = "loading"

\* C11: after any sequence of drops, FileReader completions and removals, once
\* no read is pending the file shown as selected (name and size) is the file
\* whose data was last passed to onImageSelect, and isLoading is true exactly
\* while some started read has not completed, also when a second file is
\* dropped while an earlier read is pending.
C11_SelectedFileIsShownImage ==
  /\ isLoading = ReadPending
  /\ (/\ ~ReadPending
      /\ imageSelected # <<>>
      /\ imageSelected[Len(imageSelected)] # <<>>)
     => /\ selectedFile.type = "File"
        /\ \E i \in 1..Len(readers) :
             /\ ReadAsDataURL(readers[i].file) = imageSelected[Len(imageSelected)]
             /\ readers[i].file.name = selectedFile.name
             /\ readers[i].file.size = selectedFile.size

====
